---- MODULE Spec2Model ----
(***************************************************************************)
(* A model of zfparse (src/zfparse/zfparse.py): the segmentation of a      *)
(* timeline of vocalizations into groups, bouts, motifs and phrases.       *)
(*                                                                         *)
(* Conventions.  Timestamps and thresholds are integers (ticks); a         *)
(* threshold is a record so that float('inf') can be passed.  A Python     *)
(* list is a sequence; Python index k is sequence position k + 1, so a     *)
(* timeline index i of the source is i + 1 here.  A VocGroup is modelled   *)
(* by its voc_idxs over the voc_list at hand; a call that raises returns   *)
(* Raise(<exception>) instead of a value.  A vocalization name is a        *)
(* sequence of one-character strings.                                      *)
(***************************************************************************)
EXTENDS Integers, Sequences, FiniteSets, TLC

VARIABLES
    pc,               \* which call has been made: "idle" before any
    voc_list,         \* the timeline the call works on
    groups,           \* anneal_groups / split_groups: the groups argument
    threshold,        \* the threshold argument of the last call
    breaks,           \* anneal_groups: the breaks argument
    annealed,         \* what anneal_groups returned
    split,            \* what split_groups returned
    intro_groups,     \* define_bouts: the intro_groups argument
    song_groups,      \* define_bouts: the song_groups argument
    sg_left,          \* define_bouts: the song groups not yet paired
    ig_pos,           \* define_bouts: position of the next intro group
    bouts,            \* define_bouts: the Bouts so far, then its result
    syllable_idxs,    \* define_motifs: the syllable_idxs argument
    song_sequence,    \* define_motifs / parse_motifs: the song_sequence
    motifs,           \* what define_motifs returned
    phrases,          \* what define_phrases returned
    raised            \* the exception the last call raised, or "none"

vars == <<pc, voc_list, groups, threshold, breaks, annealed, split,
          intro_groups, song_groups, sg_left, ig_pos, bouts, syllable_idxs,
          song_sequence, motifs, phrases, raised>>

----------------------------------------------------------------------------
\* Bounds of the model.

MaxVocs == 4        \* longest timeline
MaxStep == 2        \* largest difference between consecutive start times
MaxThreshold == 2   \* largest finite threshold
MaxSeq == 3         \* longest song_sequence

----------------------------------------------------------------------------
\* Values.

Ok(v) == [err |-> "none", val |-> v]

Raise(e) == [err |-> e, val |-> <<>>]

Fin(n) == [inf |-> FALSE, val |-> n]

Inf == [inf |-> TRUE, val |-> 0]

\* x > t, x >= t and x <= t for a number x and a threshold t (float or inf)
Gt(x, t) == ~t.inf /\ x > t.val

Ge(x, t) == ~t.inf /\ x >= t.val

Le(x, t) == t.inf \/ x <= t.val

\* Python s[a:b] and s[a:] for 0 <= a <= b
Slice(s, a, b) == SubSeq(s, a + 1, IF b < Len(s) THEN b ELSE Len(s))

SliceFrom(s, a) == SubSeq(s, a + 1, Len(s))

RECURSIVE Concat(_)
Concat(ss) == IF ss = <<>> THEN <<>> ELSE Head(ss) \o Concat(Tail(ss))

Range(s) == {s[k] : k \in DOMAIN s}

----------------------------------------------------------------------------
\* Utility functions and VocGroup.

delta_t(first, second) == second.start - first.stop

Vocalization(start, stop, name) == [start |-> start, stop |-> stop, name |-> name]

\* VocGroup.start and VocGroup.stop, of a non-empty group
GroupStart(vl, idxs) == vl[idxs[1]].start

GroupStop(vl, idxs) == vl[idxs[Len(idxs)]].stop

VocGroup(vl, idxs) == [voc_idxs |-> idxs,
                       start |-> GroupStart(vl, idxs),
                       stop |-> GroupStop(vl, idxs)]

----------------------------------------------------------------------------
\* 2. anneal_groups

\* breaks strictly inside the interval only
song_between_open(cg, ng, brks) ==
    {k \in DOMAIN brks : brks[k] > cg.stop /\ brks[k] < ng.start}

song_between(cg, ng, brks) ==
    {k \in DOMAIN brks : brks[k] >= cg.stop /\ brks[k] <= ng.start}

\* the next group appended as a group of its own
ExtendAsAppend(acc, g) == Append(acc, g)

\* annealed[-1].extend(...)
Extend(acc, g) == [acc EXCEPT ![Len(acc)] = @ \o g]

RECURSIVE AnnealLoop(_, _, _, _, _, _)
AnnealLoop(vl, gs, thr, brks, k, acc) ==
    IF k >= Len(gs) THEN acc
    ELSE LET cg == VocGroup(vl, gs[k])
             ng == VocGroup(vl, gs[k + 1])
         IN  IF song_between(cg, ng, brks) # {} \/ Gt(delta_t(cg, ng), thr)
             THEN AnnealLoop(vl, gs, thr, brks, k + 1, Append(acc, gs[k + 1]))
             ELSE AnnealLoop(vl, gs, thr, brks, k + 1, Extend(acc, gs[k + 1]))

anneal_groups(vl, gs, thr, brks) ==
    IF gs = <<>> THEN <<>> ELSE AnnealLoop(vl, gs, thr, brks, 1, <<gs[1]>>)

----------------------------------------------------------------------------
\* 3. split_groups

\* a cut only at a gap longer than the threshold
LongGapStrict(cn, nn, thr) == Gt(delta_t(cn, nn), thr)

\* the test that cuts a group between cn and nn
LongGap(cn, nn, thr) == Ge(delta_t(cn, nn), thr)

\* the inner loop over pairwise(grp.voc_idxs): idx and start are the
\* source's 0-based idx and start
RECURSIVE SplitGroup(_, _, _, _, _, _)
SplitGroup(vl, grp, thr, idx, start, acc) ==
    IF idx + 2 > Len(grp) THEN Append(acc, SliceFrom(grp, start))
    ELSE IF LongGap(vl[grp[idx + 1]], vl[grp[idx + 2]], thr)
         THEN SplitGroup(vl, grp, thr, idx + 1, idx + 1,
                         Append(acc, Slice(grp, start, idx + 1)))
         ELSE SplitGroup(vl, grp, thr, idx + 1, start, acc)

RECURSIVE SplitLoop(_, _, _, _, _)
SplitLoop(vl, gs, thr, k, acc) ==
    IF k > Len(gs) THEN acc
    ELSE SplitLoop(vl, gs, thr, k + 1, SplitGroup(vl, gs[k], thr, 0, 0, acc))

split_groups(vl, gs, thr) ==
    IF gs = <<>> THEN <<>> ELSE SplitLoop(vl, gs, thr, 1, <<>>)

----------------------------------------------------------------------------
\* BirdMetadata.alias.  bird is [syllables, intro_note, intro_aliases, ignore].

Contains(v, c) == \E k \in DOMAIN v : v[k] = c

\* v.split('_')[0]
SplitHead(v) ==
    IF Contains(v, "_")
    THEN SubSeq(v, 1, (CHOOSE k \in DOMAIN v :
                          v[k] = "_" /\ \A j \in 1..(k - 1) : v[j] # "_") - 1)
    ELSE v

alias(bird, voc, elide_garbled, elide_versions) ==
    IF voc = <<>> \/ voc \in bird.ignore THEN voc
    ELSE LET v1 == IF elide_garbled /\ voc[Len(voc)] = "*"
                   THEN SubSeq(voc, 1, Len(voc) - 1) ELSE voc
             garb == Contains(v1, "*")
             v2 == IF elide_versions /\ Contains(v1, "_")
                   THEN IF garb /\ ~elide_garbled
                        THEN Append(SplitHead(v1), "*") ELSE SplitHead(v1)
                   ELSE v1
         IN  IF v2 \in bird.intro_aliases THEN bird.intro_note ELSE v2

\* bird_meta.alias as full_parse passes it on: both flags at their defaults
alias_fn(bird, name) == alias(bird, name, TRUE, TRUE)

----------------------------------------------------------------------------
\* Bout

\* range(lowest_idx, highest_idx) without the Bout's own indices
InterveningIdxs(intro_idxs, syll_idxs) ==
    LET own == Range(intro_idxs) \cup Range(syll_idxs)
        lowest == CHOOSE i \in own : \A j \in own : i <= j
        highest == CHOOSE i \in own : \A j \in own : i >= j
        between == [k \in 1..(highest - lowest) |-> lowest + k - 1]
    IN  SelectSeq(between, LAMBDA i : i \notin own)

Bout(intro_idxs, syll_idxs) ==
    [intro_idxs |-> intro_idxs,
     syll_idxs |-> syll_idxs,
     motifs_set |-> FALSE,       \* FALSE: self.motifs is None
     motifs |-> <<>>,
     intervening_idxs |-> InterveningIdxs(intro_idxs, syll_idxs)]

\* Bout.first and Bout.last: the timeline position of the vocalization
BoutFirst(b) ==
    IF b.intro_idxs # <<>> THEN Ok(b.intro_idxs[1])
    ELSE IF b.syll_idxs # <<>> THEN Ok(b.syll_idxs[1])
    ELSE Raise("IndexError")

BoutLast(b) ==
    IF b.motifs_set /\ b.motifs # <<>>
    THEN IF b.syll_idxs # <<>> THEN Ok(b.syll_idxs[Len(b.syll_idxs)])
         ELSE Raise("IndexError")
    ELSE IF b.intro_idxs # <<>> THEN Ok(b.intro_idxs[Len(b.intro_idxs)])
         ELSE Raise("IndexError")

BoutStart(vl, b) ==
    IF BoutFirst(b).err # "none" THEN BoutFirst(b)
    ELSE Ok(vl[BoutFirst(b).val].start)

BoutStop(vl, b) ==
    IF BoutLast(b).err # "none" THEN BoutLast(b)
    ELSE Ok(vl[BoutLast(b).val].stop)

\* stop is evaluated before start
BoutDuration(vl, b) ==
    IF BoutStop(vl, b).err # "none" THEN BoutStop(vl, b)
    ELSE IF BoutStart(vl, b).err # "none" THEN BoutStart(vl, b)
    ELSE Ok(BoutStop(vl, b).val - BoutStart(vl, b).val)

----------------------------------------------------------------------------
\* 4. define_bouts

\* candidates that may start at the very stop of the intro group
CandidatesFromStop(vl, ig, sgl) ==
    SelectSeq([k \in 1..Len(sgl) |-> k],
              LAMBDA k : GroupStop(vl, ig) <= GroupStart(vl, sgl[k]))

\* [i for i,g in enumerate(sg_left) if ig.stop < g.start], as positions
Candidates(vl, ig, sgl) ==
    SelectSeq([k \in 1..Len(sgl) |-> k],
              LAMBDA k : GroupStop(vl, ig) < GroupStart(vl, sgl[k]))

\* the last candidate instead of the nearest
NearIdxLast(vl, ig, sgl) ==
    LET cands == Candidates(vl, ig, sgl) IN cands[Len(cands)]

\* min(cands, key=...): the first of the candidates with the least key
NearIdx(vl, ig, sgl) ==
    LET cands == Candidates(vl, ig, sgl)
        key(k) == delta_t(VocGroup(vl, ig), VocGroup(vl, sgl[k]))
        p == CHOOSE p \in DOMAIN cands :
                 /\ \A q \in DOMAIN cands : key(cands[p]) <= key(cands[q])
                 /\ \A q \in 1..(p - 1) : key(cands[q]) > key(cands[p])
    IN  cands[p]

\* a pop that removes nothing
PopNothing(s, k) == s

\* list.pop(k)
Pop(s, k) == SubSeq(s, 1, k - 1) \o SubSeq(s, k + 1, Len(s))

\* sorted(bouts, key=lambda b: b.start): a stable insertion sort
RECURSIVE InsertByStart(_, _, _)
InsertByStart(vl, srt, b) ==
    IF srt = <<>> THEN <<b>>
    ELSE IF BoutStart(vl, srt[Len(srt)]).val <= BoutStart(vl, b).val
         THEN Append(srt, b)
         ELSE Append(InsertByStart(vl, SubSeq(srt, 1, Len(srt) - 1), b),
                     srt[Len(srt)])

RECURSIVE SortedByStart(_, _)
SortedByStart(vl, bs) ==
    IF bs = <<>> THEN <<>>
    ELSE InsertByStart(vl, SortedByStart(vl, SubSeq(bs, 1, Len(bs) - 1)),
                       bs[Len(bs)])

----------------------------------------------------------------------------
\* 5. define_motifs

\* list.index(x)
Index(seq, x) ==
    IF \E k \in DOMAIN seq : seq[k] = x
    THEN Ok(CHOOSE k \in DOMAIN seq : seq[k] = x /\ \A j \in 1..(k - 1) : seq[j] # x)
    ELSE Raise("ValueError")

\* a new motif also when the position repeats
WrapsOrRepeats(ps, pl) == ps <= pl

\* the test that starts a new motif: the position went back
Wraps(ps, pl) == ps < pl

RECURSIVE MotifLoop(_, _, _, _, _, _)
MotifLoop(vl, idxs, seq, bird, k, acc) ==
    IF k > Len(idxs) THEN Ok(acc)
    ELSE LET i == idxs[k]
             cur == acc[Len(acc)]
             last == vl[cur[Len(cur)]]
             ps == Index(seq, alias_fn(bird, vl[i].name))
             pl == Index(seq, alias_fn(bird, last.name))
         IN  IF ps.err # "none" THEN ps
             ELSE IF pl.err # "none" THEN pl
             ELSE IF Wraps(ps.val, pl.val)
                  THEN MotifLoop(vl, idxs, seq, bird, k + 1, Append(acc, <<i>>))
                  ELSE MotifLoop(vl, idxs, seq, bird, k + 1,
                                 [acc EXCEPT ![Len(acc)] = Append(@, i)])

define_motifs(vl, idxs, seq, bird) ==
    IF idxs = <<>> THEN Ok(<<>>)
    ELSE MotifLoop(vl, idxs, seq, bird, 2, <<(<<idxs[1]>>)>>)

\* Bout.parse_motifs
parse_motifs(vl, b, seq, bird) ==
    LET m == define_motifs(vl, b.syll_idxs, seq, bird)
    IN  IF m.err # "none" THEN m
        ELSE Ok([b EXCEPT !.motifs_set = TRUE, !.motifs = m.val])

----------------------------------------------------------------------------
\* 6. define_phrases

\* delta_t(first, second) of two Bouts: second.start, then first.stop
BoutDelta(vl, first, second) ==
    IF BoutStart(vl, second).err # "none" THEN BoutStart(vl, second)
    ELSE IF BoutStop(vl, first).err # "none" THEN BoutStop(vl, first)
    ELSE Ok(BoutStart(vl, second).val - BoutStop(vl, first).val)

RECURSIVE PhraseLoop(_, _, _, _, _)
PhraseLoop(vl, bs, thr, k, acc) ==
    IF k > Len(bs) THEN Ok(acc)
    ELSE LET cur == acc[Len(acc)]
             d == BoutDelta(vl, cur[Len(cur)], bs[k])
         IN  IF d.err # "none" THEN d
             ELSE IF Le(d.val, thr)
                  THEN PhraseLoop(vl, bs, thr, k + 1,
                                  [acc EXCEPT ![Len(acc)] = Append(@, bs[k])])
                  ELSE PhraseLoop(vl, bs, thr, k + 1, Append(acc, <<bs[k]>>))

define_phrases(vl, bs, thr) ==
    IF bs = <<>> THEN Ok(<<>>) ELSE PhraseLoop(vl, bs, thr, 2, <<(<<bs[1]>>)>>)

----------------------------------------------------------------------------
\* The inputs the calls are made with.

Thresholds == {Fin(n) : n \in 0..MaxThreshold} \cup {Inf}

RECURSIVE StartAt(_, _)
StartAt(steps, k) == IF k = 1 THEN 0 ELSE StartAt(steps, k - 1) + steps[k - 1]

\* a timeline sorted by start: vocalization k starts steps[k - 1] after its
\* predecessor, and every vocalization lasts one tick
Timeline(steps, names) ==
    [k \in 1..Len(names) |->
        Vocalization(StartAt(steps, k), StartAt(steps, k) + 1, names[k])]

Timings(n) == [1..(n - 1) -> 0..MaxStep]

\* the members (timeline positions, ascending) cut into groups: a new group
\* starts at each member in cuts
RECURSIVE GroupsOf(_, _)
GroupsOf(members, cuts) ==
    IF members = <<>> THEN <<>>
    ELSE LET n == Len(members)
             rest == GroupsOf(SubSeq(members, 1, n - 1), cuts)
         IN  IF rest = <<>> \/ members[n] \in cuts
             THEN Append(rest, <<members[n]>>)
             ELSE [rest EXCEPT ![Len(rest)] = Append(@, members[n])]

Members(n, in) == SelectSeq([k \in 1..n |-> k], LAMBDA k : k \in in)

\* [g.start for g in <groups of the other kind>]: the starts of the
\* vocalizations at the positions in others
StartsOf(vl, others) ==
    LET at == Members(Len(vl), others) IN [k \in 1..Len(at) |-> vl[at[k]].start]

\* the bird of the calls: its song, its intro note and the spellings of it
Bird(seq) == [syllables |-> seq, intro_note |-> <<"i">>,
              intro_aliases |-> {<<"i", "i">>}, ignore |-> {<<"z">>}]

Labels == {<<"a">>, <<"b">>, <<"c", "*">>, <<"b", "_", "1">>, <<"x">>}

Syllables == {<<"a">>, <<"b">>, <<"c">>}

SongSequences == UNION {[1..m -> Syllables] : m \in 1..MaxSeq}

BoutSong == <<(<<"a">>), (<<"b">>)>>

\* the name of position k in a timeline of intro notes and syllables
RoleName(k, intro) ==
    IF k \in intro THEN <<"i">> ELSE BoutSong[(k % Len(BoutSong)) + 1]

----------------------------------------------------------------------------
\* The calls.

Init ==
    /\ pc = "idle"
    /\ voc_list = <<>>
    /\ groups = <<>>
    /\ threshold = Fin(0)
    /\ breaks = <<>>
    /\ annealed = <<>>
    /\ split = <<>>
    /\ intro_groups = <<>>
    /\ song_groups = <<>>
    /\ sg_left = <<>>
    /\ ig_pos = 0
    /\ bouts = <<>>
    /\ syllable_idxs = <<>>
    /\ song_sequence = <<>>
    /\ motifs = <<>>
    /\ phrases = <<>>
    /\ raised = "none"

\* anneal_groups(groups, threshold, breaks) on a timeline
AnnealGroups ==
    /\ pc = "idle"
    /\ \E n \in 0..MaxVocs : \E t \in Timings(n) :
       \E in \in SUBSET (1..n) : \E cuts \in SUBSET in :
       \E others \in SUBSET ((1..n) \ in) : \E thr \in Thresholds :
          LET vl == Timeline(t, [k \in 1..n |->
                                    IF k \in in THEN <<"i">> ELSE <<"a">>])
              gs == GroupsOf(Members(n, in), cuts)
              brks == StartsOf(vl, others)
          IN  /\ voc_list' = vl
              /\ groups' = gs
              /\ threshold' = thr
              /\ breaks' = brks
              /\ annealed' = anneal_groups(vl, gs, thr, brks)
    /\ pc' = "annealed"
    /\ UNCHANGED <<split, intro_groups, song_groups, sg_left, ig_pos, bouts,
                   syllable_idxs, song_sequence, motifs, phrases, raised>>

\* split_groups(groups, threshold) on a timeline
SplitGroups ==
    /\ pc = "idle"
    /\ \E n \in 0..MaxVocs : \E t \in Timings(n) :
       \E in \in SUBSET (1..n) : \E cuts \in SUBSET in :
       \E thr \in Thresholds :
          LET vl == Timeline(t, [k \in 1..n |-> <<"a">>])
              gs == GroupsOf(Members(n, in), cuts)
          IN  /\ voc_list' = vl
              /\ groups' = gs
              /\ threshold' = thr
              /\ split' = split_groups(vl, gs, thr)
    /\ pc' = "split"
    /\ UNCHANGED <<breaks, annealed, intro_groups, song_groups, sg_left,
                   ig_pos, bouts, syllable_idxs, song_sequence, motifs,
                   phrases, raised>>

\* anneal_groups(split, inf) on what split_groups returned
ReAnneal ==
    /\ pc = "split"
    /\ breaks' = <<>>
    /\ annealed' = anneal_groups(voc_list, split, Inf, <<>>)
    /\ pc' = "reannealed"
    /\ UNCHANGED <<voc_list, groups, threshold, split, intro_groups,
                   song_groups, sg_left, ig_pos, bouts, syllable_idxs,
                   song_sequence, motifs, phrases, raised>>

\* define_bouts(intro_groups, song_groups, anneal_threshold): entry
CallDefineBouts ==
    /\ pc = "idle"
    /\ \E n \in 0..MaxVocs : \E t \in Timings(n) :
       \E intro \in SUBSET (1..n) : \E cuts \in SUBSET (1..n) :
       \E thr \in Thresholds :
          /\ voc_list' = Timeline(t, [k \in 1..n |-> RoleName(k, intro)])
          /\ intro_groups' = GroupsOf(Members(n, intro), cuts)
          /\ song_groups' = GroupsOf(Members(n, (1..n) \ intro), cuts)
          /\ threshold' = thr
    /\ sg_left' = song_groups'
    /\ bouts' = <<>>
    /\ ig_pos' = 1
    /\ pc' = "bouts_loop"
    /\ UNCHANGED <<groups, breaks, annealed, split, syllable_idxs,
                   song_sequence, motifs, phrases, raised>>

\* define_bouts: one turn of the loop over intro_groups
BoutsIter ==
    /\ pc = "bouts_loop"
    /\ ig_pos <= Len(intro_groups)
    /\ LET ig == intro_groups[ig_pos]
       IN  IF Candidates(voc_list, ig, sg_left) = <<>>
           THEN /\ raised' = "ValueError"
                /\ pc' = "bouts_raised"
                /\ UNCHANGED <<sg_left, ig_pos, bouts>>
           ELSE LET near_idx == NearIdx(voc_list, ig, sg_left)
                    near_sg == sg_left[near_idx]
                IN  /\ IF Le(delta_t(VocGroup(voc_list, ig),
                                     VocGroup(voc_list, near_sg)), threshold)
                       THEN /\ bouts' = Append(bouts, Bout(ig, near_sg))
                            /\ sg_left' = Pop(sg_left, near_idx)
                       ELSE /\ bouts' = Append(bouts, Bout(ig, <<>>))
                            /\ sg_left' = sg_left
                    /\ ig_pos' = ig_pos + 1
                    /\ UNCHANGED <<pc, raised>>
    /\ UNCHANGED <<voc_list, groups, threshold, breaks, annealed, split,
                   intro_groups, song_groups, syllable_idxs, song_sequence,
                   motifs, phrases>>

\* define_bouts: the leftover song groups, the sort and the return
BoutsReturn ==
    /\ pc = "bouts_loop"
    /\ ig_pos > Len(intro_groups)
    /\ bouts' = SortedByStart(voc_list,
                    bouts \o [k \in 1..Len(sg_left) |-> Bout(<<>>, sg_left[k])])
    /\ pc' = "bouts_done"
    /\ UNCHANGED <<voc_list, groups, threshold, breaks, annealed, split,
                   intro_groups, song_groups, sg_left, ig_pos, syllable_idxs,
                   song_sequence, motifs, phrases, raised>>

\* full_parse with parse_motifs: b.parse_motifs(...) for every Bout
ParseMotifs ==
    /\ pc = "bouts_done"
    /\ LET bird == Bird(BoutSong)
           parsed == [k \in 1..Len(bouts) |->
                         parse_motifs(voc_list, bouts[k], BoutSong, bird)]
       IN  IF \E k \in DOMAIN parsed : parsed[k].err # "none"
           THEN /\ raised' = "ValueError"
                /\ pc' = "parse_raised"
                /\ UNCHANGED bouts
           ELSE /\ bouts' = [k \in 1..Len(bouts) |-> parsed[k].val]
                /\ pc' = "parsed"
                /\ UNCHANGED raised
    /\ song_sequence' = BoutSong
    /\ UNCHANGED <<voc_list, groups, threshold, breaks, annealed, split,
                   intro_groups, song_groups, sg_left, ig_pos, syllable_idxs,
                   motifs, phrases>>

\* define_phrases(bouts, anneal_threshold) on what define_bouts returned,
\* with or without the motifs parsed
DefinePhrases ==
    /\ pc \in {"bouts_done", "parsed"}
    /\ \E thr \in Thresholds :
          LET r == define_phrases(voc_list, bouts, thr)
          IN  /\ threshold' = thr
              /\ IF r.err # "none"
                 THEN /\ raised' = r.err
                      /\ pc' = "phrases_raised"
                      /\ UNCHANGED phrases
                 ELSE /\ phrases' = r.val
                      /\ pc' = "phrases"
                      /\ UNCHANGED raised
    /\ UNCHANGED <<voc_list, groups, breaks, annealed, split, intro_groups,
                   song_groups, sg_left, ig_pos, bouts, syllable_idxs,
                   song_sequence, motifs>>

\* define_motifs(voc_list, syllable_idxs, song_sequence, alias_fn)
DefineMotifs ==
    /\ pc = "idle"
    /\ \E n \in 0..MaxVocs : \E names \in [1..n -> Labels] :
       \E seq \in SongSequences :
          LET vl == Timeline([k \in 1..(n - 1) |-> 1], names)
              idxs == [k \in 1..n |-> k]
              r == define_motifs(vl, idxs, seq, Bird(seq))
          IN  /\ voc_list' = vl
              /\ syllable_idxs' = idxs
              /\ song_sequence' = seq
              /\ IF r.err # "none"
                 THEN /\ raised' = r.err
                      /\ pc' = "motifs_raised"
                      /\ UNCHANGED motifs
                 ELSE /\ motifs' = r.val
                      /\ pc' = "motifs"
                      /\ UNCHANGED raised
    /\ UNCHANGED <<groups, threshold, breaks, annealed, split, intro_groups,
                   song_groups, sg_left, ig_pos, bouts, phrases>>

NextAnneal == AnnealGroups

NextSplit == SplitGroups \/ ReAnneal

NextBouts == CallDefineBouts \/ BoutsIter \/ BoutsReturn \/ ParseMotifs \/ DefinePhrases

NextMotifs == DefineMotifs

Next == NextAnneal \/ NextSplit \/ NextBouts \/ NextMotifs

SpecAnneal == Init /\ [][NextAnneal]_vars

SpecSplit == Init /\ [][NextSplit]_vars

SpecBouts == Init /\ [][NextBouts]_vars

SpecMotifs == Init /\ [][NextMotifs]_vars

Spec == Init /\ [][Next]_vars

----------------------------------------------------------------------------
\* What the claims speak of.

\* the silence between two vocalizations or groups, in ticks
Silence(stop, start) == start - stop

\* the groups at positions k and k + 1 of gs lie in one group of out
Together(gs, k, out) ==
    \E o \in DOMAIN out :
        (Range(gs[k]) \cup Range(gs[k + 1])) \subseteq Range(out[o])

AnnealGap(k) ==
    Silence(voc_list[groups[k][Len(groups[k])]].stop,
            voc_list[groups[k + 1][1]].start)

BarrierBetween(k) ==
    \E b \in DOMAIN breaks :
        /\ voc_list[groups[k][Len(groups[k])]].stop <= breaks[b]
        /\ breaks[b] <= voc_list[groups[k + 1][1]].start

\* C6: anneal_groups puts two adjacent input groups in one output group if
\* and only if their silence is at most the threshold (equal merges) and no
\* break lies in [cg.stop, ng.start]; the output index lists, concatenated,
\* are the input index lists, concatenated.
C6_AnnealCriterion ==
    pc = "annealed" =>
        /\ Concat(annealed) = Concat(groups)
        /\ \A o \in DOMAIN annealed : annealed[o] # <<>>
        /\ \A k \in 1..(Len(groups) - 1) :
              Together(groups, k, annealed)
                  <=> (Le(AnnealGap(k), threshold) /\ ~BarrierBetween(k))

\* a gap equal to the threshold merged, and a break kept a close pair apart
C6_Witness ==
    /\ pc = "annealed"
    /\ ~threshold.inf
    /\ \E k \in 1..(Len(groups) - 1) :
          AnnealGap(k) = threshold.val /\ Together(groups, k, annealed)
    /\ \E k \in 1..(Len(groups) - 1) :
          /\ Le(AnnealGap(k), threshold)
          /\ BarrierBetween(k)
          /\ ~Together(groups, k, annealed)

\* members j and j + 1 of input group g lie in one fragment of split
SameFragment(g, j) ==
    \E f \in DOMAIN split : {groups[g][j], groups[g][j + 1]} \subseteq Range(split[f])

SplitGap(g, j) ==
    Silence(voc_list[groups[g][j]].stop, voc_list[groups[g][j + 1]].start)

\* the number of pairs of consecutive members split_groups has to cut
CutsDue ==
    Cardinality({p \in (DOMAIN groups) \X (1..MaxVocs) :
                    /\ p[2] < Len(groups[p[1]])
                    /\ Ge(SplitGap(p[1], p[2]), threshold)})

\* C7: split_groups cuts between consecutive members of a group exactly when
\* their gap is at least the threshold (equal cuts); every fragment is
\* non-empty and lies within one input group, a group without such a gap
\* comes out unchanged, and the order of groups and indices is kept.
C7_SplitCriterion ==
    pc \in {"split", "reannealed"} =>
        /\ \A f \in DOMAIN split : split[f] # <<>>
        /\ Concat(split) = Concat(groups)
        /\ Len(split) = Len(groups) + CutsDue
        /\ \A f \in DOMAIN split : \E g \in DOMAIN groups :
              Range(split[f]) \subseteq Range(groups[g])
        /\ \A g \in DOMAIN groups :
              /\ \A j \in 1..(Len(groups[g]) - 1) :
                    ~SameFragment(g, j) <=> Ge(SplitGap(g, j), threshold)
              /\ (\A j \in 1..(Len(groups[g]) - 1) :
                     ~Ge(SplitGap(g, j), threshold))
                  => \E f \in DOMAIN split : split[f] = groups[g]

\* one group was cut at a gap equal to the threshold, another came out whole
C7_Witness ==
    /\ pc = "split"
    /\ ~threshold.inf
    /\ Len(groups) >= 2
    /\ \E g \in DOMAIN groups : \E j \in 1..(Len(groups[g]) - 1) :
          SplitGap(g, j) = threshold.val /\ ~SameFragment(g, j)
    /\ \E g \in DOMAIN groups :
          /\ Len(groups[g]) >= 2
          /\ \E f \in DOMAIN split : split[f] = groups[g]

\* C8: annealing, with an infinite threshold and no breaks, what
\* split_groups made of a single group gives back that group alone.
C8_SplitAnnealRoundTrip ==
    (pc = "reannealed" /\ Len(groups) = 1) => annealed = groups

\* a single group was cut in at least two and annealed again
C8_Witness ==
    /\ pc = "reannealed"
    /\ Len(groups) = 1
    /\ Len(split) >= 2
    /\ annealed = groups

----------------------------------------------------------------------------
\* define_motifs

\* the aliased label of the syllable at position k of syllable_idxs
Aliased(k) ==
    alias_fn(Bird(song_sequence), voc_list[syllable_idxs[k]].name)

Known(k) == \E p \in DOMAIN song_sequence : song_sequence[p] = Aliased(k)

\* the position of the first occurrence of a label in song_sequence
FirstPos(label) ==
    CHOOSE p \in DOMAIN song_sequence :
        /\ song_sequence[p] = label
        /\ \A q \in DOMAIN song_sequence : song_sequence[q] = label => p <= q

MotifCalled == pc \in {"motifs", "motifs_raised"}

\* the syllable at position k of syllable_idxs is the first of a motif
StartsMotif(k) == \E m \in DOMAIN motifs : motifs[m][1] = syllable_idxs[k]

\* the example of the claim: canonical a b c, labels a b c a b a c
ExampleLabels == <<(<<"a">>), (<<"b">>), (<<"c">>), (<<"a">>), (<<"b">>),
                   (<<"a">>), (<<"c">>)>>

ExampleSong == <<(<<"a">>), (<<"b">>), (<<"c">>)>>

ExampleMotifs ==
    define_motifs(Timeline([k \in 1..6 |-> 1], ExampleLabels),
                  [k \in 1..7 |-> k], ExampleSong, Bird(ExampleSong))

\* C5: define_motifs fails whenever the aliased label of any syllable of a
\* non-empty list, the first and an only one included, is not in the
\* canonical sequence.
C5_UnknownSymbolFails ==
    (MotifCalled /\ \E k \in DOMAIN syllable_idxs : ~Known(k))
        => pc = "motifs_raised"

\* C9: with every aliased label in the canonical sequence, define_motifs
\* returns non-empty motifs whose concatenation is the syllable list, and a
\* syllable starts a new motif exactly when the first-occurrence position of
\* its aliased label is strictly smaller than that of the syllable before;
\* a b c a b a c over a b c gives [a b c], [a b], [a c]; an empty list gives
\* an empty list.
C9_MotifBoundaryRule ==
    /\ (MotifCalled /\ \A k \in DOMAIN syllable_idxs : Known(k)) =>
          /\ pc = "motifs"
          /\ \A m \in DOMAIN motifs : motifs[m] # <<>>
          /\ Concat(motifs) = syllable_idxs
          /\ syllable_idxs = <<>> => motifs = <<>>
          /\ \A k \in 2..Len(syllable_idxs) :
                StartsMotif(k) <=> FirstPos(Aliased(k)) < FirstPos(Aliased(k - 1))
    /\ ExampleMotifs = Ok(<<(<<1, 2, 3>>), (<<4, 5>>), (<<6, 7>>)>>)

\* motifs were returned for aliased spellings: a position went back and
\* started a motif, a repeated position did not
C9_Witness ==
    /\ pc = "motifs"
    /\ \A k \in DOMAIN syllable_idxs : Known(k)
    /\ \E k \in DOMAIN syllable_idxs :
          Aliased(k) # voc_list[syllable_idxs[k]].name
    /\ \E k \in 2..Len(syllable_idxs) :
          FirstPos(Aliased(k)) < FirstPos(Aliased(k - 1)) /\ StartsMotif(k)
    /\ \E k \in 2..Len(syllable_idxs) :
          FirstPos(Aliased(k)) = FirstPos(Aliased(k - 1)) /\ ~StartsMotif(k)

----------------------------------------------------------------------------
\* define_bouts

BoutIdxs(b) == b.intro_idxs \o b.syll_idxs

AllBoutIdxs == Concat([k \in DOMAIN bouts |-> BoutIdxs(bouts[k])])

Count(seq, x) == Cardinality({k \in DOMAIN seq : seq[k] = x})

InputIdxs == Range(Concat(intro_groups)) \cup Range(Concat(song_groups))

\* C1: when define_bouts returns, every timeline index of an input intro or
\* song group is in exactly one Bout, among its intro or its syllable
\* indices: none is lost and none is in two Bouts.
C1_BoutCompleteness ==
    pc = "bouts_done" =>
        /\ \A i \in InputIdxs : Count(AllBoutIdxs, i) = 1
        /\ Range(AllBoutIdxs) \subseteq InputIdxs

\* define_bouts returned a paired Bout, an intro-only and a song-only Bout
C1_Witness ==
    /\ pc = "bouts_done"
    /\ \E k \in DOMAIN bouts :
          bouts[k].intro_idxs # <<>> /\ bouts[k].syll_idxs # <<>>
    /\ \E k \in DOMAIN bouts : bouts[k].syll_idxs = <<>>
    /\ \E k \in DOMAIN bouts : bouts[k].intro_idxs = <<>>

\* the start of the earliest vocalization of a Bout and the stop of its last
\* one: the last syllable if it has syllables, else the last intro note
EarliestStart(b) ==
    LET starts == {voc_list[i].start : i \in Range(BoutIdxs(b))}
    IN  CHOOSE t \in starts : \A u \in starts : t <= u

LastStop(b) ==
    IF b.syll_idxs # <<>> THEN voc_list[b.syll_idxs[Len(b.syll_idxs)]].stop
    ELSE voc_list[b.intro_idxs[Len(b.intro_idxs)]].stop

\* C2: a Bout with a non-empty sub-group has start, stop and duration, from
\* its earliest and its last vocalization, whether its motifs are unset,
\* parsed and empty, or parsed and non-empty.
C2_BoutSpan ==
    pc \in {"bouts_done", "parsed"} =>
        \A k \in DOMAIN bouts :
            BoutIdxs(bouts[k]) # <<>> =>
                /\ BoutStart(voc_list, bouts[k]).err = "none"
                /\ BoutStart(voc_list, bouts[k]).val = EarliestStart(bouts[k])
                /\ BoutStop(voc_list, bouts[k]).err = "none"
                /\ BoutStop(voc_list, bouts[k]).val = LastStop(bouts[k])
                /\ BoutDuration(voc_list, bouts[k]).err = "none"
                /\ BoutDuration(voc_list, bouts[k]).val
                       = LastStop(bouts[k]) - EarliestStart(bouts[k])

\* the same of the Bouts whose motifs have been parsed
BoutSpanOnceParsed ==
    pc = "parsed" => C2_BoutSpan

BoutSilence(prev, next) == Silence(LastStop(prev), EarliestStart(next))

\* C3: in what define_phrases returns for Bouts sorted by start, consecutive
\* Bouts of a Phrase are at most the threshold apart, the last Bout of a
\* Phrase and the first of the next are more than the threshold apart, no
\* Phrase is empty, and the Phrases, concatenated, are the input Bouts.
C3_PhraseMonotonicity ==
    pc = "phrases" =>
        /\ \A p \in DOMAIN phrases : phrases[p] # <<>>
        /\ Concat(phrases) = bouts
        /\ \A p \in DOMAIN phrases : \A j \in 1..(Len(phrases[p]) - 1) :
              Le(BoutSilence(phrases[p][j], phrases[p][j + 1]), threshold)
        /\ \A p \in 1..(Len(phrases) - 1) :
              Gt(BoutSilence(phrases[p][Len(phrases[p])], phrases[p + 1][1]),
                 threshold)

\* the same of Bouts whose motifs have all been parsed
PhraseMonotonicityOnceParsed ==
    (\A k \in DOMAIN bouts : bouts[k].motifs_set) => C3_PhraseMonotonicity

After(ig, g) == voc_list[ig[Len(ig)]].stop < voc_list[g[1]].start

Dist(ig, g) == Silence(voc_list[ig[Len(ig)]].stop, voc_list[g[1]].start)

\* no song group left in the pool starts strictly after the intro group
\* whose turn it is
NoSongAfter ==
    \A k \in DOMAIN sg_left : ~After(intro_groups[ig_pos], sg_left[k])

\* C4: when define_bouts takes up an intro group after whose stop no song
\* group left in the pool starts, it fails with an error and returns no
\* Bouts; it does not go on without that intro group.
C4_UnmatchedIntroFails ==
    [][/\ (pc = "bouts_loop" /\ ig_pos <= Len(intro_groups) /\ NoSongAfter)
            => (pc' = "bouts_raised" /\ raised' = "ValueError")
       /\ pc = "bouts_raised" => pc' = "bouts_raised"]_vars

\* define_bouts raised although a song group was left: one that starts at
\* the very stop of the intro group, not after it
C4_Witness ==
    /\ pc = "bouts_raised"
    /\ raised = "ValueError"
    /\ \E k \in DOMAIN sg_left :
          Dist(intro_groups[ig_pos], sg_left[k]) = 0

\* the song groups still in the pool at the turn of intro group i
Consumed(i) == {bouts[k].syll_idxs : k \in 1..(i - 1)} \ {<<>>}

PoolAt(i) == SelectSeq(song_groups, LAMBDA g : g \notin Consumed(i))

\* s is a song group of the pool nearest after ig
IsNearest(ig, s, pool) ==
    /\ s \in Range(pool)
    /\ After(ig, s)
    /\ \A g \in Range(pool) : After(ig, g) => Dist(ig, s) <= Dist(ig, g)

\* the Bout of intro group k: its nearest song group if that is within the
\* threshold, else no song group
Outcome(k) ==
    LET ig == intro_groups[k]
        t == bouts[k].syll_idxs
    IN  /\ bouts[k].intro_idxs = ig
        /\ \E s \in Range(PoolAt(k)) :
              /\ IsNearest(ig, s, PoolAt(k))
              /\ Le(Dist(ig, s), threshold) => IsNearest(ig, t, PoolAt(k))
              /\ Gt(Dist(ig, s), threshold) => t = <<>>
        /\ PoolAt(k + 1) = IF t = <<>> THEN PoolAt(k)
                           ELSE SelectSeq(PoolAt(k), LAMBDA g : g # t)

\* intro group i was paired with the song group that was nearest to the
\* later intro group j as well
Lost(i, j) ==
    /\ bouts[i].syll_idxs # <<>>
    /\ IsNearest(intro_groups[j], bouts[i].syll_idxs, PoolAt(i))

\* intro group j is intro-only or has another, no nearer, song group
SecondBest(i, j) ==
    LET s == bouts[i].syll_idxs
        t == bouts[j].syll_idxs
    IN  \/ t = <<>>
        \/ /\ t # s
           /\ t \in Range(PoolAt(i))
           /\ Dist(intro_groups[j], t) >= Dist(intro_groups[j], s)

InBoutsLoop == pc \in {"bouts_loop", "bouts_raised"}

GreedyInOrder ==
    /\ Len(bouts) = ig_pos - 1
    /\ sg_left = PoolAt(ig_pos)
    /\ \A k \in 1..(ig_pos - 1) : Outcome(k)

====
